---- MODULE Spec2Model ----
(***************************************************************************)
(* Model of express/simple-express-app: the register / login / posts      *)
(* routes, the auth and error middleware, the Mongoose models they use,   *)
(* and the Socket.IO authentication gate.                                 *)
(*                                                                         *)
(* Strings that the code inspects (names, emails, passwords, object ids)  *)
(* are sequences of one-character strings; messages the code only copies  *)
(* are TLA+ strings.                                                       *)
(***************************************************************************)
EXTENDS Naturals, Sequences, FiniteSets, TLC

VARIABLES users, posts, reg, last, socks, out, inbox, delivered, service

vars == <<users, posts, reg, last, socks, out, inbox, delivered, service>>

(***************************************************************************)
(* Bounds of the model.                                                    *)
(***************************************************************************)
\* register requests that can be in flight at once
MaxReq == 2
\* posts the store may hold
MaxPosts == 2
\* socket connections
MaxSock == 2
\* characters of an object id (24 in the database; shortened)
OidLen == 2
\* pending reconnect timers of the WebSocketService
MaxTimers == 2
\* browser sockets of the WebSocketService on their way to closed
MaxClosing == 2

Reqs == 1..MaxReq
Socks == 1..MaxSock

(***************************************************************************)
(* Program constants.                                                      *)
(***************************************************************************)
MinNameLen == 2
MinPasswordLen == 6
DuplicateKeyCode == 11000
JWT_SECRET == "secret"

(***************************************************************************)
(* Strings as sequences of characters.                                     *)
(***************************************************************************)
HexChars == {"0", "1", "2", "3", "4", "5", "6", "7", "8", "9"}
Digits == <<"0", "1", "2", "3", "4", "5", "6", "7", "8", "9">>

RECURSIVE LTrim(_)
LTrim(s) ==
    IF s # <<>> /\ Head(s) = " " THEN LTrim(Tail(s)) ELSE s

RECURSIVE RTrim(_)
RTrim(s) ==
    IF s # <<>> /\ s[Len(s)] = " " THEN RTrim(SubSeq(s, 1, Len(s) - 1)) ELSE s

\* express-validator .trim()
trim(s) == RTrim(LTrim(s))

\* express-validator .isLength({ min })
isLength(s, min) == Len(s) >= min

Count(s, c) == Cardinality({i \in 1..Len(s) : s[i] = c})

IndexOf(s, c) ==
    IF \E i \in 1..Len(s) : s[i] = c
    THEN CHOOSE i \in 1..Len(s) : s[i] = c /\ \A j \in 1..(i - 1) : s[j] # c
    ELSE 0

\* express-validator .isEmail(): one "@", a non-empty local part, and a
\* domain with a dot that is neither its first nor its last character
isEmail(s) ==
    /\ Count(s, "@") = 1
    /\ LET at == IndexOf(s, "@")
           domain == SubSeq(s, at + 1, Len(s))
       IN /\ at > 1
          /\ domain # <<>>
          /\ Count(domain, ".") >= 1
          /\ domain[1] # "."
          /\ domain[Len(domain)] # "."

ToLower(c) ==
    CASE c = "A" -> "a"
      [] c = "B" -> "b"
      [] OTHER -> c

\* express-validator .normalizeEmail(): lower-cases the address
normalizeEmail(s) == [i \in 1..Len(s) |-> ToLower(s[i])]

\* bcrypt.hash(password, 10): the digest is marked by a leading "$"
Hash(p) == <<"$">> \o p

\* bcrypt.compare(candidate, digest)
Compare(candidate, digest) == digest = Hash(candidate)

\* the n-th object id the database hands out
Oid(n) == [i \in 1..OidLen |-> IF i = OidLen THEN Digits[n + 1] ELSE "0"]

\* mongoose casts a string to ObjectId only when it is OidLen hex characters
IsObjectId(s) == Len(s) = OidLen /\ \A i \in 1..Len(s) : s[i] \in HexChars

NoId == <<>>

(***************************************************************************)
(* JSON web tokens.                                                        *)
(***************************************************************************)
NoToken == [id |-> NoId, sig |-> ""]

\* jwt.sign({ id }, secret)
MutSign(id, secret) == [id |-> NoId, sig |-> secret]
Sign(id, secret) == [id |-> id, sig |-> secret]

\* jwt.verify(token, secret) succeeds exactly on tokens signed with secret
Verifies(tok, secret) == tok.sig = secret

(***************************************************************************)
(* Responses.  `error` is the error property when it is a string,         *)
(* `errorArr` the error property when it is an array, `errors` the        *)
(* errors property of a validation response.                               *)
(***************************************************************************)
NoUser == [id |-> NoId, name |-> <<>>, email |-> <<>>]
NoPost == [id |-> NoId, title |-> "", content |-> "", author |-> NoUser]

NoRes ==
    [status |-> 0, success |-> "unset", error |-> "", errorArr |-> <<>>,
     errors |-> <<>>, token |-> NoToken, user |-> NoUser, post |-> NoPost]

ErrorRes(status, msg) == [NoRes EXCEPT !.status = status, !.error = msg]

(***************************************************************************)
(* Request inputs.                                                         *)
(***************************************************************************)
Names == { <<" ", "J", "o">>, <<" ", "J", " ">> }
Emails ==
    { <<"a", "@", "x", ".", "c">>, <<"A", "@", "x", ".", "c">>,
      <<"b", "@", "x", ".", "c">>, <<"a", "x">> }
Passwords ==
    { <<"p", "a", "s", "s", "w", "d">>, <<"1", "2", "3", "4", "5">>,
      <<"1", "2", "3">> }
LoginPasswords == { <<"p", "a", "s", "s", "w", "d">>, <<"s", "e", "c", "r", "e", "t">> }

Bodies == [name : Names, email : Emails, password : Passwords]

NoBody == [name |-> <<>>, email |-> <<>>, password |-> <<>>]

(***************************************************************************)
(* models/User.js                                                          *)
(***************************************************************************)
\* User.findOne({ email })
MutFindByEmail(email) == {}
FindByEmail(email) == {u \in users : u.email = email}

\* the unique index on email: the insert is refused when the email is taken
MutUniqueEmailOk(email) == TRUE
UniqueEmailOk(email) == \A u \in users : u.email # email

\* userSchema.pre("save"): a new document's password is hashed once
PreSave(doc) == [doc EXCEPT !.password = Hash(doc.password)]

\* userSchema.pre("save") on a document loaded from the store: isModified
\* compares the password with the one that was loaded
MutPreSaveLoaded(prior, doc) == [doc EXCEPT !.password = Hash(doc.password)]
PreSaveLoaded(prior, doc) ==
    IF doc.password = prior.password
    THEN doc
    ELSE [doc EXCEPT !.password = Hash(doc.password)]

\* the digest of a reset token, and the field of a user without one
Sha256(resetToken) == <<"sha256", resetToken>>
NoResetToken == <<>>

\* new User({ name, email, password }): the schema trims the name; a new
\* user is no admin and has no reset token
NewUser(name, email, password) ==
    [id |-> Oid(Cardinality(users) + 1), name |-> trim(name),
     email |-> email, password |-> password, role |-> "user",
     resetPasswordToken |-> NoResetToken]

(***************************************************************************)
(* routes/auth.js  POST /register                                          *)
(***************************************************************************)
\* validationResult(req).array(): the messages of the failing chains
MutValidationErrors(body) ==
    (IF isLength(body.name, MinNameLen)
        THEN <<>> ELSE <<"Name must be at least 2 characters">>)
    \o (IF isEmail(body.email) THEN <<>> ELSE <<"Invalid email">>)
    \o (IF isLength(body.password, MinPasswordLen)
        THEN <<>> ELSE <<"Password must be at least 6 characters">>)
ValidationErrors(body) ==
    (IF isLength(trim(body.name), MinNameLen)
        THEN <<>> ELSE <<"Name must be at least 2 characters">>)
    \o (IF isEmail(body.email) THEN <<>> ELSE <<"Invalid email">>)
    \o (IF isLength(body.password, MinPasswordLen)
        THEN <<>> ELSE <<"Password must be at least 6 characters">>)

\* req.body after the sanitizers of the chains ran
Sanitize(body) ==
    [name |-> trim(body.name), email |-> normalizeEmail(body.email),
     password |-> body.password]

\* the validators run and the handler starts: 400 on a validation error,
\* otherwise the findOne query is issued
RegisterValidate(r, body) ==
    /\ reg[r].pc \in {"idle", "done"}
    /\ LET errs == ValidationErrors(body)
       IN IF errs # <<>>
          THEN reg' = [reg EXCEPT ![r] =
                         [pc |-> "done", body |-> body, req |-> Sanitize(body),
                          res |-> [NoRes EXCEPT !.status = 400, !.errors = errs]]]
          ELSE reg' = [reg EXCEPT ![r] =
                         [pc |-> "findOne", body |-> body, req |-> Sanitize(body),
                          res |-> NoRes]]
    /\ UNCHANGED <<users, posts, last, socks, out, inbox, delivered, service>>

\* await User.findOne({ email }) resolves
RegisterFindOne(r) ==
    /\ reg[r].pc = "findOne"
    /\ IF FindByEmail(reg[r].req.email) # {}
       THEN reg' = [reg EXCEPT ![r].pc = "done",
                               ![r].res = ErrorRes(400, "User already exists")]
       ELSE reg' = [reg EXCEPT ![r].pc = "save"]
    /\ UNCHANGED <<users, posts, last, socks, out, inbox, delivered, service>>

\* await user.save() resolves or rejects; a rejection is caught by the
\* handler's catch block
RegisterSave(r) ==
    /\ reg[r].pc = "save"
    /\ LET b == reg[r].req
           user == PreSave(NewUser(b.name, b.email, b.password))
       IN IF UniqueEmailOk(user.email)
          THEN /\ users' = users \cup {user}
               /\ reg' = [reg EXCEPT ![r].pc = "done",
                            ![r].res = [NoRes EXCEPT
                               !.status = 201,
                               !.token = Sign(user.id, JWT_SECRET),
                               !.user = [id |-> user.id, name |-> b.name,
                                         email |-> b.email]]]
          ELSE /\ users' = users
               /\ reg' = [reg EXCEPT ![r].pc = "done",
                                     ![r].res = ErrorRes(500, "Server error")]
    /\ UNCHANGED <<posts, last, socks, out, inbox, delivered, service>>

(***************************************************************************)
(* routes/auth.js  POST /login                                             *)
(***************************************************************************)
Login(email, password) ==
    /\ LET found == FindByEmail(email)
       IN IF found = {}
          THEN last' = [op |-> "login", in |-> [email |-> email, password |-> password],
                        res |-> ErrorRes(400, "Invalid credentials")]
          ELSE \E user \in found :
                 IF ~Compare(password, user.password)
                 THEN last' = [op |-> "login",
                               in |-> [email |-> email, password |-> password],
                               res |-> ErrorRes(400, "Invalid credentials")]
                 ELSE last' = [op |-> "login",
                               in |-> [email |-> email, password |-> password],
                               res |-> [NoRes EXCEPT
                                  !.status = 200,
                                  !.token = Sign(user.id, JWT_SECRET),
                                  !.user = [id |-> user.id, name |-> user.name,
                                            email |-> email]]]
    /\ UNCHANGED <<users, posts, reg, socks, out, inbox, delivered, service>>

(***************************************************************************)
(* routes/auth.js  POST /forgotpassword and PUT /resetpassword/:resettoken *)
(***************************************************************************)
\* what crypto.randomBytes may return, and what a client may send
ResetTokens == {"r1", "r2"}

\* POST /forgotpassword: getResetPasswordToken(), then save().  The schema
\* does not declare the reset fields: declared says whether the application
\* added them, so that save() stores them.
ForgotPassword(email, resetToken, declared) ==
    /\ \A u \in users : u.resetPasswordToken # Sha256(resetToken)
    /\ LET found == FindByEmail(email)
           in == [email |-> email]
       IN IF found = {}
          THEN /\ users' = users
               /\ last' = [op |-> "forgotpassword", in |-> in,
                           res |-> ErrorRes(404, "User not found"),
                           resetToken |-> ""]
          ELSE \E user \in found :
                 LET doc == IF declared
                            THEN [user EXCEPT
                                    !.resetPasswordToken = Sha256(resetToken)]
                            ELSE user
                 IN /\ users' = (users \ {user}) \cup {PreSaveLoaded(user, doc)}
                    /\ last' = [op |-> "forgotpassword", in |-> in,
                                res |-> [NoRes EXCEPT !.status = 200],
                                resetToken |-> resetToken]
    /\ UNCHANGED <<posts, reg, socks, out, inbox, delivered, service>>

\* PUT /resetpassword/:resettoken: expired says whether resetPasswordExpire
\* has passed
ResetPassword(resettoken, password, expired) ==
    /\ LET found == {u \in users :
                       u.resetPasswordToken = Sha256(resettoken) /\ ~expired}
           in == [resettoken |-> resettoken, password |-> password]
       IN IF found = {}
          THEN /\ users' = users
               /\ last' = [op |-> "resetpassword", in |-> in,
                           res |-> ErrorRes(400, "Invalid token")]
          ELSE \E user \in found :
                 LET doc == [user EXCEPT !.password = password,
                                         !.resetPasswordToken = NoResetToken]
                 IN /\ users' = (users \ {user}) \cup {PreSaveLoaded(user, doc)}
                    /\ last' = [op |-> "resetpassword", in |-> in,
                                res |-> [NoRes EXCEPT !.status = 200]]
    /\ UNCHANGED <<posts, reg, socks, out, inbox, delivered, service>>

(***************************************************************************)
(* middleware/auth.js                                                      *)
(*                                                                         *)
(* A header value is a sequence of words: the "Bearer " prefix, or a JSON  *)
(* web token.  The empty sequence is the empty string.                     *)
(***************************************************************************)
BearerWord == [k |-> "Bearer ", tok |-> NoToken]
JwtWord(t) == [k |-> "jwt", tok |-> t]

NoHeader == [present |-> FALSE, words |-> <<>>]
Header(ws) == [present |-> TRUE, words |-> ws]

\* String.prototype.replace(w, ""): the first occurrence of w is removed
Replace(ws, w) ==
    IF \E i \in 1..Len(ws) : ws[i] = w
    THEN LET i == CHOOSE k \in 1..Len(ws) :
                     ws[k] = w /\ \A j \in 1..(k - 1) : ws[j] # w
         IN SubSeq(ws, 1, i - 1) \o SubSeq(ws, i + 1, Len(ws))
    ELSE ws

\* jwt.verify(token, secret) returns the payload of a well-formed token
\* signed with secret, and throws on anything else
MutJwtVerifies(ws, secret) == Len(ws) = 1 /\ ws[1].k = "jwt"
JwtVerifies(ws, secret) ==
    Len(ws) = 1 /\ ws[1].k = "jwt" /\ Verifies(ws[1].tok, secret)

\* the middleware: what it answers (status 0: nothing), how often it calls
\* next, and req.user
MutAuth(hdr) ==
    LET token == IF hdr.present THEN Replace(hdr.words, BearerWord) ELSE <<>>
    IN IF token = <<>>
       THEN [res |-> ErrorRes(401, "No token, authorization denied"),
             next |-> 0, user |-> [id |-> NoId]]
       ELSE IF Len(token) = 1 /\ token[1].k = "jwt"
            THEN [res |-> NoRes, next |-> 1, user |-> [id |-> token[1].tok.id]]
            ELSE [res |-> ErrorRes(401, "Token is not valid"),
                  next |-> 0, user |-> [id |-> NoId]]
auth(hdr) ==
    LET token == IF hdr.present THEN Replace(hdr.words, BearerWord) ELSE <<>>
    IN IF token = <<>>
       THEN [res |-> ErrorRes(401, "No token, authorization denied"),
             next |-> 0, user |-> [id |-> NoId]]
       ELSE IF JwtVerifies(token, JWT_SECRET)
            THEN [res |-> NoRes, next |-> 1, user |-> [id |-> token[1].tok.id]]
            ELSE [res |-> ErrorRes(401, "Token is not valid"),
                  next |-> 0, user |-> [id |-> NoId]]

\* tokens a client can hold: the server signs one for every user it stores
IssuedTokens == {Sign(u.id, JWT_SECRET) : u \in users}
ForgedTokens == {Sign(Oid(1), "forged")}
ClientTokens == IssuedTokens \cup ForgedTokens

Headers ==
    {NoHeader, Header(<<>>)}
    \cup {Header(<<BearerWord, JwtWord(t)>>) : t \in ClientTokens}
    \cup {Header(<<JwtWord(t)>>) : t \in ClientTokens}
    \cup {Header(<<BearerWord, BearerWord, JwtWord(t)>>) : t \in IssuedTokens}

(***************************************************************************)
(* models/Post.js and routes/posts.js                                      *)
(***************************************************************************)
Titles == {"", "Title"}
Contents == {"", "Content"}

\* populate("author", "name email")
Populate(post) ==
    LET found == {u \in users : u.id = post.author}
    IN [id |-> post.id, title |-> post.title, content |-> post.content,
        author |-> IF found = {} THEN NoUser
                   ELSE LET u == CHOOSE u \in found : TRUE
                        IN [id |-> u.id, name |-> u.name, email |-> u.email]]

\* postSchema: title, content and author are required, author is an ObjectId
PostValid(post) ==
    post.title # "" /\ post.content # "" /\ IsObjectId(post.author)

\* POST /api/posts: the auth middleware, then the handler
CreatePost(hdr, title, content) ==
    /\ Cardinality(posts) < MaxPosts
    /\ LET a == auth(hdr)
           post == [id |-> Oid(Cardinality(posts) + 1), title |-> title,
                    content |-> content, author |-> a.user.id]
           in == [hdr |-> hdr, title |-> title, content |-> content]
       IN IF a.next = 0
          THEN /\ last' = [op |-> "createPost", in |-> in, res |-> a.res,
                           mw |-> a.res, next |-> a.next, user |-> a.user,
                           ran |-> FALSE]
               /\ posts' = posts
          ELSE IF PostValid(post)
               THEN /\ posts' = posts \cup {post}
                    /\ last' = [op |-> "createPost", in |-> in,
                                res |-> [NoRes EXCEPT !.status = 201,
                                                      !.post = Populate(post)],
                                mw |-> a.res, next |-> a.next, user |-> a.user,
                                ran |-> TRUE]
               ELSE /\ posts' = posts
                    /\ last' = [op |-> "createPost", in |-> in,
                                res |-> ErrorRes(500, "Server error"),
                                mw |-> a.res, next |-> a.next, user |-> a.user,
                                ran |-> TRUE]
    /\ UNCHANGED <<users, reg, socks, out, inbox, delivered, service>>

PostIds == {Oid(1), Oid(MaxPosts + 1), <<"i", "n", "v">>}

\* GET /api/posts/:id: a cast error of findById is caught by the handler
GetPostRes(id) ==
    IF ~IsObjectId(id)
    THEN ErrorRes(500, "Server error")
    ELSE LET found == {p \in posts : p.id = id}
         IN IF found = {}
            THEN ErrorRes(404, "Post not found")
            ELSE [NoRes EXCEPT !.status = 200,
                               !.post = Populate(CHOOSE p \in found : TRUE)]

GetPost(id) ==
    /\ last' = [op |-> "getPost", in |-> [id |-> id], res |-> GetPostRes(id)]
    /\ UNCHANGED <<users, posts, reg, socks, out, inbox, delivered, service>>

\* GET /api/posts
GetPosts ==
    /\ last' = [op |-> "getPosts", in |-> <<>>,
                res |-> [NoRes EXCEPT !.status = 200],
                list |-> {Populate(p) : p \in posts}]
    /\ UNCHANGED <<users, posts, reg, socks, out, inbox, delivered, service>>

(***************************************************************************)
(* middleware/admin.js and routes/admin.js                                 *)
(***************************************************************************)
Roles == {"user", "admin"}

\* req.user.role: undefined when req.user has no such property
RoleOf(user) == IF "role" \in DOMAIN user THEN user.role ELSE "undefined"

\* the middleware: what it answers (status 0: nothing) and how often it
\* calls next
admin(user) ==
    IF RoleOf(user) # "admin"
    THEN [res |-> ErrorRes(403, "Access denied. Admin role required."),
          next |-> 0]
    ELSE [res |-> NoRes, next |-> 1]

\* router.use(auth); router.use(admin): the answer of the first middleware
\* that does not call next, and whether the route handler runs
AdminGate(hdr) ==
    LET a == auth(hdr)
    IN IF a.next = 0
       THEN [res |-> a.res, next |-> 0]
       ELSE admin(a.user)

\* the role stored for the user a header's token names ("none": no such user)
StoredRole(hdr) ==
    LET a == auth(hdr)
        found == {u \in users : u.id = a.user.id}
    IN IF a.next = 0 \/ found = {}
       THEN "none"
       ELSE (CHOOSE u \in found : TRUE).role

\* select("-password")
SelectNoPassword(u) ==
    [id |-> u.id, name |-> u.name, email |-> u.email, role |-> u.role,
     resetPasswordToken |-> u.resetPasswordToken]

\* a role is set by hand in the database
SetRole(id, role) ==
    /\ \E u \in users : u.id = id /\ u.role # role
    /\ users' = {IF u.id = id THEN [u EXCEPT !.role = role] ELSE u : u \in users}
    /\ UNCHANGED <<posts, reg, last, socks, out, inbox, delivered, service>>

\* GET /api/admin/users
AdminGetUsers(hdr) ==
    /\ LET g == AdminGate(hdr)
       IN last' = [op |-> "adminGetUsers", in |-> [hdr |-> hdr],
                   role |-> StoredRole(hdr),
                   res |-> IF g.next = 0 THEN g.res
                           ELSE [NoRes EXCEPT !.status = 200],
                   list |-> IF g.next = 0 THEN {}
                            ELSE {SelectNoPassword(u) : u \in users}]
    /\ UNCHANGED <<users, posts, reg, socks, out, inbox, delivered, service>>

\* DELETE /api/admin/users/:id
AdminDeleteUser(hdr, id) ==
    /\ LET g == AdminGate(hdr)
       IN /\ last' = [op |-> "adminDeleteUser", in |-> [hdr |-> hdr, id |-> id],
                      role |-> StoredRole(hdr),
                      res |-> IF g.next = 0 THEN g.res
                              ELSE [NoRes EXCEPT !.status = 200],
                      list |-> {}]
          /\ users' = IF g.next = 0 THEN users
                      ELSE {u \in users : u.id # id}
    /\ UNCHANGED <<posts, reg, socks, out, inbox, delivered, service>>

\* PUT /api/admin/users/:id/role
AdminUpdateRole(hdr, id, role) ==
    /\ LET g == AdminGate(hdr)
       IN /\ last' = [op |-> "adminUpdateRole",
                      in |-> [hdr |-> hdr, id |-> id, role |-> role],
                      role |-> StoredRole(hdr),
                      res |-> IF g.next = 0 THEN g.res
                              ELSE [NoRes EXCEPT !.status = 200],
                      list |-> {}]
          /\ users' = IF g.next = 0 THEN users
                      ELSE {IF u.id = id THEN [u EXCEPT !.role = role] ELSE u :
                              u \in users}
    /\ UNCHANGED <<posts, reg, socks, out, inbox, delivered, service>>

(***************************************************************************)
(* middleware/error.js                                                     *)
(*                                                                         *)
(* An error is [name, code, statusCode, message, errors]; code 0 and       *)
(* statusCode 0 stand for an absent property.                              *)
(***************************************************************************)
Err(name, code, statusCode, message, errors) ==
    [name |-> name, code |-> code, statusCode |-> statusCode,
     message |-> message, errors |-> errors]

MutErrorHandler(err) ==
    LET e0 == [message |-> err.message, arr |-> <<>>, isArr |-> FALSE,
               statusCode |-> err.statusCode]
        e1 == IF err.name = "CastError"
              THEN [message |-> "Resource not found", arr |-> <<>>,
                    isArr |-> FALSE, statusCode |-> 404]
              ELSE e0
        e2 == IF err.code = DuplicateKeyCode
              THEN [message |-> "Duplicate field value entered", arr |-> <<>>,
                    isArr |-> FALSE, statusCode |-> 400]
              ELSE e1
        e3 == IF err.name = "ValidationError"
              THEN [message |-> "", arr |-> err.errors, isArr |-> TRUE,
                    statusCode |-> 400]
              ELSE e2
    IN [NoRes EXCEPT
          !.status = 500,
          !.success = "false",
          !.error = IF e3.isArr THEN ""
                    ELSE IF e3.message # "" THEN e3.message ELSE "Server Error",
          !.errorArr = IF e3.isArr THEN e3.arr ELSE <<>>]
errorHandler(err) ==
    LET e0 == [message |-> err.message, arr |-> <<>>, isArr |-> FALSE,
               statusCode |-> err.statusCode]
        e1 == IF err.name = "CastError"
              THEN [message |-> "Resource not found", arr |-> <<>>,
                    isArr |-> FALSE, statusCode |-> 404]
              ELSE e0
        e2 == IF err.code = DuplicateKeyCode
              THEN [message |-> "Duplicate field value entered", arr |-> <<>>,
                    isArr |-> FALSE, statusCode |-> 400]
              ELSE e1
        e3 == IF err.name = "ValidationError"
              THEN [message |-> "", arr |-> err.errors, isArr |-> TRUE,
                    statusCode |-> 400]
              ELSE e2
    IN [NoRes EXCEPT
          !.status = IF e3.statusCode # 0 THEN e3.statusCode ELSE 500,
          !.success = "false",
          !.error = IF e3.isArr THEN ""
                    ELSE IF e3.message # "" THEN e3.message ELSE "Server Error",
          !.errorArr = IF e3.isArr THEN e3.arr ELSE <<>>]

\* app.js GET /test-error: next(error) with error.name = "CastError"
TestError ==
    /\ LET err == Err("CastError", 0, 0, "Test error", <<>>)
       IN last' = [op |-> "testError", in |-> err, res |-> errorHandler(err)]
    /\ UNCHANGED <<users, posts, reg, socks, out, inbox, delivered, service>>

\* app.js express.json(): a body that does not parse is passed to next with
\* statusCode 400
MalformedJson ==
    /\ LET err == Err("SyntaxError", 0, 400, "Unexpected token", <<>>)
       IN last' = [op |-> "malformedJson", in |-> err, res |-> errorHandler(err)]
    /\ UNCHANGED <<users, posts, reg, socks, out, inbox, delivered, service>>

ErrMessages == {"", "boom"}
ErrFieldMessages == {<<"Name is required">>,
                     <<"Name is required", "Email is required">>}

\* the errors mongoose, the database driver and body-parser raise: a cast
\* error, a validation error with its field messages, a driver error with
\* its code, and errors that may carry a statusCode of their own
Errs ==
    {Err("CastError", 0, 0, m, <<>>) : m \in ErrMessages}
    \cup {Err("ValidationError", 0, 0, m, e) :
             m \in ErrMessages, e \in ErrFieldMessages}
    \cup {Err("MongoServerError", c, 0, m, <<>>) :
             c \in {DuplicateKeyCode, 121}, m \in ErrMessages}
    \cup {Err(n, 0, sc, m, <<>>) :
             n \in {"SyntaxError", "Error"}, sc \in {0, 400, 413},
             m \in ErrMessages}

\* the middleware applied to an error some route or middleware passed on
ApplyErrorHandler(err) ==
    /\ last' = [op |-> "errorHandler", in |-> err, res |-> errorHandler(err)]
    /\ UNCHANGED <<users, posts, reg, socks, out, inbox, delivered, service>>

(***************************************************************************)
(* middleware/socketAuth.js, the connection handler of app.js and           *)
(* routes/socket.js                                                         *)
(*                                                                         *)
(* A socket is [st, hs, userId, listeners, rooms, err]: hs is               *)
(* handshake.auth.token as a sequence of words (empty when missing).        *)
(* `out` is the last handler that ran and what it emitted, to whom.         *)
(***************************************************************************)
Events ==
    {"join", "sendMessage", "typing", "stopTyping", "sendNotification",
     "newPost", "addComment", "userOnline", "disconnect"}

NoSock ==
    [st |-> "none", hs |-> <<>>, userId |-> NoId, listeners |-> {},
     rooms |-> {}, err |-> ""]

\* an event without arguments, an emission without payload
Nothing == [none |-> TRUE]

NoOut ==
    [by |-> 0, on |-> "none", in |-> Nothing, ev |-> "none", data |-> Nothing,
     to |-> {}]

\* the middleware: whether next() is called without an error, and socket.userId
MutSocketAuth(ws) ==
    IF ws = <<>>
    THEN [ok |-> TRUE, userId |-> NoId, err |-> ""]
    ELSE IF JwtVerifies(ws, JWT_SECRET)
         THEN [ok |-> TRUE, userId |-> ws[1].tok.id, err |-> ""]
         ELSE [ok |-> FALSE, userId |-> NoId, err |-> "Authentication error"]
socketAuth(ws) ==
    IF ws = <<>>
    THEN [ok |-> FALSE, userId |-> NoId, err |-> "Authentication error"]
    ELSE IF JwtVerifies(ws, JWT_SECRET)
         THEN [ok |-> TRUE, userId |-> ws[1].tok.id, err |-> ""]
         ELSE [ok |-> FALSE, userId |-> NoId, err |-> "Authentication error"]

\* ids of the users whose sockets connect
UserIds == {Oid(1), Oid(2)}

\* handshake tokens: none, one that register or login signed for a user, or
\* one signed with another secret
Handshakes ==
    {<<>>}
    \cup {<<JwtWord(Sign(id, JWT_SECRET))>> : id \in UserIds}
    \cup {<<JwtWord(t)>> : t \in ForgedTokens}

\* a client connects: io.use(socketAuth), then io.on("connection") registers
\* the handlers of app.js and of routes/socket.js
Connect(s, ws) ==
    /\ socks[s].st = "none"
    /\ LET a == socketAuth(ws)
       IN IF a.ok
          THEN socks' = [socks EXCEPT ![s] =
                           [st |-> "connected", hs |-> ws, userId |-> a.userId,
                            listeners |-> Events, rooms |-> {}, err |-> ""]]
          ELSE socks' = [socks EXCEPT ![s] =
                           [st |-> "refused", hs |-> ws, userId |-> NoId,
                            listeners |-> {}, rooms |-> {}, err |-> a.err]]
    /\ UNCHANGED <<users, posts, reg, last, out, inbox, delivered, service>>

\* the server runs the handler of ev for socket s
Handles(s, ev) == socks[s].st = "connected" /\ ev \in socks[s].listeners

Connected == {s \in Socks : socks[s].st = "connected"}

\* io.to(room): the connected sockets that joined room
InRoom(room) == {s \in Connected : room \in socks[s].rooms}

RoomNames == UserIds
Messages == {"hi"}
Senders == {"ann"}

\* socket.on("join")
OnJoin(s, userId) ==
    /\ Handles(s, "join")
    /\ socks' = [socks EXCEPT ![s].rooms = @ \cup {userId}]
    /\ out' = [by |-> s, on |-> "join", in |-> [userId |-> userId],
               ev |-> "none", data |-> Nothing, to |-> {}]
    /\ UNCHANGED <<users, posts, reg, last, inbox, delivered, service>>

\* socket.on("sendMessage"): io.to(room).emit("message", ...)
MutOnSendMessage(s, message, room, sender) ==
    /\ Handles(s, "sendMessage")
    /\ out' = [by |-> s, on |-> "sendMessage",
               in |-> [message |-> message, room |-> room, sender |-> sender],
               ev |-> "message",
               data |-> [message |-> message, sender |-> sender],
               to |-> InRoom(room) \ {s}]
    /\ UNCHANGED <<users, posts, reg, last, socks, inbox, delivered, service>>
OnSendMessage(s, message, room, sender) ==
    /\ Handles(s, "sendMessage")
    /\ out' = [by |-> s, on |-> "sendMessage",
               in |-> [message |-> message, room |-> room, sender |-> sender],
               ev |-> "message",
               data |-> [message |-> message, sender |-> sender],
               to |-> InRoom(room)]
    /\ UNCHANGED <<users, posts, reg, last, socks, inbox, delivered, service>>

\* socket.on("typing") / socket.on("stopTyping"): socket.to(room).emit(...)
MutOnTyping(s, on, room, user) ==
    /\ Handles(s, on)
    /\ out' = [by |-> s, on |-> on, in |-> [room |-> room, user |-> user],
               ev |-> "userTyping",
               data |-> [user |-> user, isTyping |-> (on = "typing")],
               to |-> InRoom(room)]
    /\ UNCHANGED <<users, posts, reg, last, socks, inbox, delivered, service>>
OnTyping(s, on, room, user) ==
    /\ Handles(s, on)
    /\ out' = [by |-> s, on |-> on, in |-> [room |-> room, user |-> user],
               ev |-> "userTyping",
               data |-> [user |-> user, isTyping |-> (on = "typing")],
               to |-> InRoom(room) \ {s}]
    /\ UNCHANGED <<users, posts, reg, last, socks, inbox, delivered, service>>

\* socket.on("sendNotification"): io.to(userId).emit("notification", ...)
OnSendNotification(s, userId, notification) ==
    /\ Handles(s, "sendNotification")
    /\ out' = [by |-> s, on |-> "sendNotification",
               in |-> [userId |-> userId, notification |-> notification],
               ev |-> "notification",
               data |-> notification, to |-> InRoom(userId)]
    /\ UNCHANGED <<users, posts, reg, last, socks, inbox, delivered, service>>

\* routes/socket.js socket.on("newPost"): the module never requires the Post
\* model, so `new Post(postData)` throws and the catch block answers the sender
OnNewPost(s, postData) ==
    /\ Handles(s, "newPost")
    /\ out' = [by |-> s, on |-> "newPost", in |-> postData, ev |-> "error",
               data |-> [message |-> "Failed to create post"], to |-> {s}]
    /\ UNCHANGED <<users, posts, reg, last, socks, inbox, delivered, service>>

\* routes/socket.js socket.on("addComment"): socket.to(postId).emit(...)
OnAddComment(s, postId, comment, userId) ==
    /\ Handles(s, "addComment")
    /\ out' = [by |-> s, on |-> "addComment",
               in |-> [postId |-> postId, comment |-> comment, userId |-> userId],
               ev |-> "commentAdded",
               data |-> [postId |-> postId, comment |-> comment, userId |-> userId],
               to |-> InRoom(postId) \ {s}]
    /\ UNCHANGED <<users, posts, reg, last, socks, inbox, delivered, service>>

\* routes/socket.js socket.on("userOnline"): socket.userId = userId
OnUserOnline(s, userId) ==
    /\ Handles(s, "userOnline")
    /\ socks' = [socks EXCEPT ![s].userId = userId]
    /\ out' = [by |-> s, on |-> "userOnline", in |-> [userId |-> userId],
               ev |-> "userStatusChanged",
               data |-> [userId |-> userId, status |-> "online"],
               to |-> Connected \ {s}]
    /\ UNCHANGED <<users, posts, reg, last, inbox, delivered, service>>

\* the client goes away: the disconnect handler of routes/socket.js
OnDisconnect(s) ==
    /\ Handles(s, "disconnect")
    /\ socks' = [socks EXCEPT ![s].st = "closed", ![s].rooms = {}]
    /\ out' = IF socks[s].userId # NoId
              THEN [by |-> s, on |-> "disconnect", in |-> Nothing,
                    ev |-> "userStatusChanged",
                    data |-> [userId |-> socks[s].userId, status |-> "offline"],
                    to |-> Connected \ {s}]
              ELSE [by |-> s, on |-> "disconnect", in |-> Nothing, ev |-> "none",
                    data |-> Nothing, to |-> {}]
    /\ UNCHANGED <<users, posts, reg, last, inbox, delivered, service>>

\* the transport hands the last emission to the sockets it was addressed to
\* that are still connected; `delivered` is the last emission handed over and
\* inbox[s] the events the client of socket s received
Deliver ==
    /\ delivered # out
    /\ inbox' = [s \in Socks |->
                   IF s \in out.to /\ out.ev # "none" /\ socks[s].st = "connected"
                   THEN inbox[s] \cup {[ev |-> out.ev, data |-> out.data]}
                   ELSE inbox[s]]
    /\ delivered' = out
    /\ UNCHANGED <<users, posts, reg, last, socks, out, service>>

(***************************************************************************)
(* Angular WebSocketService (websocket.service.ts).                        *)
(*                                                                         *)
(* `service` is the service and the browser sockets it created: socket is *)
(* whether this.socket$ is defined, cur the state of the browser socket of *)
(* this.socket$, zombies the sockets completed while still connecting,     *)
(* closing the sockets whose close was requested and whose close event is  *)
(* still to come, timers the pending setTimeout callbacks, sub and retries *)
(* the subscription piped through retry(), and scheduled the reconnects    *)
(* attemptReconnect scheduled since the last open; next is the last        *)
(* message handed to socket$.next and warn the last console.warn.          *)
(***************************************************************************)
maxReconnectAttempts == 5
InitialReconnectDelay == 1000
MaxReconnectDelay == 30000

Min(a, b) == IF a < b THEN a ELSE b

NoWs ==
    [socket |-> FALSE, cur |-> "none", zombies |-> 0, closing |-> 0,
     connectionStatus |-> FALSE, reconnectAttempts |-> 0,
     reconnectDelay |-> InitialReconnectDelay, timers |-> 0,
     sub |-> "none", retries |-> 0, scheduled |-> 0,
     next |-> "none", warn |-> ""]

\* openObserver.next
openObserver(w) ==
    [w EXCEPT !.connectionStatus = TRUE, !.reconnectAttempts = 0,
              !.reconnectDelay = InitialReconnectDelay, !.scheduled = 0]

\* attemptReconnect(token)
MutAttemptReconnect(w) ==
    IF w.reconnectAttempts < maxReconnectAttempts
    THEN [w EXCEPT !.reconnectAttempts = @ + 1, !.timers = @ + 1,
                   !.scheduled = @ + 1, !.reconnectDelay = @ * 2]
    ELSE w
attemptReconnect(w) ==
    IF w.reconnectAttempts < maxReconnectAttempts
    THEN [w EXCEPT !.reconnectAttempts = @ + 1, !.timers = @ + 1,
                   !.scheduled = @ + 1,
                   !.reconnectDelay = Min(@ * 2, MaxReconnectDelay)]
    ELSE w

\* closeObserver.next
closeObserver(w) == attemptReconnect([w EXCEPT !.connectionStatus = FALSE])

\* disconnect(): complete() asks the browser socket of this.socket$ to close
disconnect(w) ==
    IF w.socket
    THEN [w EXCEPT !.socket = FALSE, !.cur = "none", !.sub = "none",
                   !.zombies = IF w.cur = "connecting" THEN @ + 1 ELSE @,
                   !.closing = IF w.cur = "open" THEN @ + 1 ELSE @,
                   !.connectionStatus = FALSE]
    ELSE [w EXCEPT !.connectionStatus = FALSE]

\* connect(token): a new socket$ and a new subscription through retry()
connect(w) ==
    [(IF w.socket THEN disconnect(w) ELSE w) EXCEPT
        !.socket = TRUE, !.cur = "connecting", !.sub = "live", !.retries = 0]

\* room for one more socket on its way to closed, and for one more timer
RoomToClose == service.zombies + service.closing < MaxClosing
RoomToSchedule ==
    \/ service.reconnectAttempts >= maxReconnectAttempts
    \/ service.timers < MaxTimers

\* the application calls connect(), as AuthService.login does
WsConnect ==
    /\ RoomToClose
    /\ service' = connect(service)
    /\ UNCHANGED <<users, posts, reg, last, socks, out, inbox, delivered>>

\* the application calls disconnect(), as AuthService.logout does
WsDisconnect ==
    /\ RoomToClose
    /\ service' = disconnect(service)
    /\ UNCHANGED <<users, posts, reg, last, socks, out, inbox, delivered>>

\* the browser socket of socket$ opens
WsOpen ==
    /\ service.cur = "connecting"
    /\ service' = [openObserver(service) EXCEPT !.cur = "open"]
    /\ UNCHANGED <<users, posts, reg, last, socks, out, inbox, delivered>>

\* the browser socket of socket$ closes, cleanly or not: closeObserver, then
\* the subscription completes, or errors into retry() and catchError
WsClose(clean) ==
    /\ service.cur \in {"connecting", "open"}
    /\ RoomToSchedule
    /\ LET w == [closeObserver(service) EXCEPT !.cur = "none"]
       IN service' = IF clean
                THEN [w EXCEPT !.sub = "ended"]
                ELSE IF w.retries < maxReconnectAttempts
                     THEN [w EXCEPT !.sub = "waiting"]
                     ELSE [w EXCEPT !.sub = "ended", !.connectionStatus = FALSE]
    /\ UNCHANGED <<users, posts, reg, last, socks, out, inbox, delivered>>

\* the delay of retry() elapses: the subscription opens a socket again
WsRetry ==
    /\ service.sub = "waiting"
    /\ service' = [service EXCEPT !.sub = "live", !.cur = "connecting",
                                  !.retries = @ + 1]
    /\ UNCHANGED <<users, posts, reg, last, socks, out, inbox, delivered>>

\* a socket completed while connecting opens after all: openObserver, then
\* the buffered completion closes it
WsZombieOpen ==
    /\ service.zombies > 0
    /\ service' = [openObserver(service) EXCEPT !.zombies = @ - 1,
                                                !.closing = @ + 1]
    /\ UNCHANGED <<users, posts, reg, last, socks, out, inbox, delivered>>

\* a socket completed while connecting fails to connect: closeObserver
WsZombieClose ==
    /\ service.zombies > 0
    /\ RoomToSchedule
    /\ service' = [closeObserver(service) EXCEPT !.zombies = @ - 1]
    /\ UNCHANGED <<users, posts, reg, last, socks, out, inbox, delivered>>

\* the close event of a socket that was asked to close: closeObserver
WsClosed ==
    /\ service.closing > 0
    /\ RoomToSchedule
    /\ service' = [closeObserver(service) EXCEPT !.closing = @ - 1]
    /\ UNCHANGED <<users, posts, reg, last, socks, out, inbox, delivered>>

\* a setTimeout callback of attemptReconnect runs: connect(token)
WsTimer ==
    /\ service.timers > 0
    /\ RoomToClose
    /\ service' = [connect(service) EXCEPT !.timers = @ - 1]
    /\ UNCHANGED <<users, posts, reg, last, socks, out, inbox, delivered>>

\* the type of the message each helper builds: sendChatMessage, joinRoom,
\* leaveRoom, sendTypingIndicator, stopTypingIndicator
MessageTypes == {"chat", "join_room", "leave_room", "typing", "stop_typing"}

NotConnectedWarning == "WebSocket not connected, cannot send message"

\* sendMessage(message)
MutSendMessage(w, message) ==
    IF w.socket
    THEN [w EXCEPT !.next = message]
    ELSE [w EXCEPT !.warn = NotConnectedWarning]
sendMessage(w, message) ==
    IF w.socket /\ w.connectionStatus
    THEN [w EXCEPT !.next = message]
    ELSE [w EXCEPT !.warn = NotConnectedWarning]

\* the application calls sendMessage through one of the helpers
WsSendMessage(type) ==
    /\ service' = sendMessage(service, type)
    /\ UNCHANGED <<users, posts, reg, last, socks, out, inbox, delivered>>

(***************************************************************************)
(* Specifications.                                                         *)
(***************************************************************************)
NoLast == [op |-> "none", in |-> <<>>, res |-> NoRes]

IdleReq == [pc |-> "idle", body |-> NoBody, req |-> NoBody, res |-> NoRes]

Init ==
    /\ users = {}
    /\ posts = {}
    /\ reg = [r \in Reqs |-> IdleReq]
    /\ last = NoLast
    /\ socks = [s \in Socks |-> NoSock]
    /\ out = NoOut
    /\ inbox = [s \in Socks |-> {}]
    /\ delivered = NoOut
    /\ service = NoWs

\* register bodies with a valid name and password
GoodName == <<" ", "J", "o">>
GoodPassword == <<"p", "a", "s", "s", "w", "d">>
EmailBodies == [name : {GoodName}, email : Emails, password : {GoodPassword}]
TwoBodies ==
    [name : {GoodName},
     email : {<<"a", "@", "x", ".", "c">>, <<"b", "@", "x", ".", "c">>},
     password : {GoodPassword}]

\* concurrent register requests, and login
Next ==
    \/ \E r \in Reqs, body \in EmailBodies : RegisterValidate(r, body)
    \/ \E r \in Reqs : RegisterFindOne(r)
    \/ \E r \in Reqs : RegisterSave(r)
    \/ \E email \in Emails, password \in LoginPasswords : Login(email, password)

Spec == Init /\ [][Next]_vars

\* one register request at a time, over every combination of fields
NextValidate ==
    \/ \E body \in Bodies : RegisterValidate(1, body)
    \/ RegisterFindOne(1)
    \/ RegisterSave(1)

SpecValidate == Init /\ [][NextValidate]_vars

\* the posts routes behind the auth middleware, and the error routes
NextApi ==
    \/ \E body \in TwoBodies : RegisterValidate(1, body)
    \/ RegisterFindOne(1)
    \/ RegisterSave(1)
    \/ \E hdr \in Headers, title \in Titles, content \in Contents :
          CreatePost(hdr, title, content)
    \/ \E id \in PostIds : GetPost(id)
    \/ GetPosts
    \/ TestError
    \/ MalformedJson
    \/ \E err \in Errs : ApplyErrorHandler(err)

SpecApi == Init /\ [][NextApi]_vars

\* register, login and the creation of posts
NextPosts ==
    \/ \E body \in TwoBodies : RegisterValidate(1, body)
    \/ RegisterFindOne(1)
    \/ RegisterSave(1)
    \/ \E email \in Emails, password \in LoginPasswords : Login(email, password)
    \/ \E hdr \in Headers, title \in Titles, content \in Contents :
          CreatePost(hdr, title, content)

SpecPosts == Init /\ [][NextPosts]_vars

\* register, login and the password reset routes
NextReset ==
    \/ \E body \in TwoBodies : RegisterValidate(1, body)
    \/ RegisterFindOne(1)
    \/ RegisterSave(1)
    \/ \E body \in TwoBodies, password \in LoginPasswords :
          Login(body.email, password)
    \/ \E body \in TwoBodies, resetToken \in ResetTokens, declared \in BOOLEAN :
          ForgotPassword(body.email, resetToken, declared)
    \/ \E resettoken \in ResetTokens, password \in LoginPasswords,
          expired \in BOOLEAN : ResetPassword(resettoken, password, expired)

SpecReset == Init /\ [][NextReset]_vars

\* register, roles set by hand, and the admin routes
NextAdmin ==
    \/ \E body \in TwoBodies : RegisterValidate(1, body)
    \/ RegisterFindOne(1)
    \/ RegisterSave(1)
    \/ \E id \in UserIds, role \in Roles : SetRole(id, role)
    \/ \E hdr \in Headers : AdminGetUsers(hdr)
    \/ \E hdr \in Headers, id \in UserIds : AdminDeleteUser(hdr, id)
    \/ \E hdr \in Headers, id \in UserIds, role \in Roles :
          AdminUpdateRole(hdr, id, role)

SpecAdmin == Init /\ [][NextAdmin]_vars

\* socket connections and their events
NextSock ==
    \/ \E s \in Socks, ws \in Handshakes : Connect(s, ws)
    \/ \E s \in Socks, userId \in RoomNames : OnJoin(s, userId)
    \/ \E s \in Socks, m \in Messages, room \in RoomNames, sender \in Senders :
          OnSendMessage(s, m, room, sender)
    \/ \E s \in Socks, on \in {"typing", "stopTyping"}, room \in RoomNames,
          user \in Senders : OnTyping(s, on, room, user)
    \/ \E s \in Socks, userId \in RoomNames :
          OnSendNotification(s, userId, [title |-> "note"])
    \/ \E s \in Socks : OnNewPost(s, [title |-> "Title", content |-> "Content",
                                      author |-> Oid(1)])
    \/ \E s \in Socks, postId \in RoomNames :
          OnAddComment(s, postId, "nice", Oid(1))
    \/ \E s \in Socks, userId \in RoomNames : OnUserOnline(s, userId)
    \/ \E s \in Socks : OnDisconnect(s)

SpecSock == Init /\ [][NextSock]_vars

\* the handlers of app.js that relay an event to a room
NextRoom ==
    \/ \E s \in Socks, ws \in Handshakes : Connect(s, ws)
    \/ \E s \in Socks, userId \in RoomNames : OnJoin(s, userId)
    \/ \E s \in Socks, m \in Messages, room \in RoomNames, sender \in Senders :
          OnSendMessage(s, m, room, sender)
    \/ \E s \in Socks, on \in {"typing", "stopTyping"}, room \in RoomNames,
          user \in Senders : OnTyping(s, on, room, user)
    \/ \E s \in Socks : OnDisconnect(s)

SpecRoom == Init /\ [][NextRoom]_vars

\* clients that connect, join, send messages and leave, each handler running
\* once the emission of the one before it left the server, and the transport
\* that delivers every emission
NextChat ==
    \/ \E s \in Socks, ws \in Handshakes : Connect(s, ws)
    \/ \E s \in Socks, userId \in RoomNames :
          delivered = out /\ OnJoin(s, userId)
    \/ \E s \in Socks, m \in Messages, room \in RoomNames, sender \in Senders :
          delivered = out /\ OnSendMessage(s, m, room, sender)
    \/ \E s \in Socks : delivered = out /\ OnDisconnect(s)
    \/ Deliver

SpecChat == Init /\ [][NextChat]_vars /\ WF_vars(Deliver)

\* the WebSocketService, the application calling it and its sockets' events
NextWs ==
    \/ WsConnect
    \/ WsDisconnect
    \/ WsOpen
    \/ \E clean \in BOOLEAN : WsClose(clean)
    \/ WsRetry
    \/ WsZombieOpen
    \/ WsZombieClose
    \/ WsClosed
    \/ WsTimer
    \/ \E type \in MessageTypes : WsSendMessage(type)

SpecWs == Init /\ [][NextWs]_vars

(***************************************************************************)
(* Properties.                                                             *)
(***************************************************************************)
Range(s) == {s[i] : i \in 1..Len(s)}

InFlight(r) == reg[r].pc \in {"findOne", "save"}

C2_UniqueEmail ==
    \A u, v \in users : u.email = v.email => u = v

\* two requests for one email both passed the lookup; the index refused one
C2_Witness ==
    \E r1, r2 \in Reqs :
       /\ r1 # r2
       /\ reg[r1].pc = "done" /\ reg[r1].res.status = 201
       /\ reg[r2].pc = "done" /\ reg[r2].res.status = 500
       /\ reg[r1].req.email = reg[r2].req.email
       /\ Cardinality({u \in users : u.email = reg[r1].req.email}) = 1

\* C3: of two valid register requests for one email, one is answered 201
\* and the other 400.
C3_Original ==
    \A r1, r2 \in Reqs :
       (/\ r1 # r2
        /\ reg[r1].pc = "done" /\ reg[r2].pc = "done"
        /\ reg[r1].res.errors = <<>> /\ reg[r2].res.errors = <<>>
        /\ reg[r1].req.email = reg[r2].req.email
        /\ reg[r1].res.status = 201)
       => reg[r2].res.status = 400

\* the token the auth middleware extracts from a header
HeaderToken(hdr) == IF hdr.present THEN Replace(hdr.words, BearerWord) ELSE <<>>

\* C4: a request to the guarded route either carries a token that verifies,
\* and then req.user.id is the id of its payload, next is called once and
\* the middleware sends nothing; or it is answered 401 with the message of
\* its case, next is not called, the handler does not run and no post is
\* stored.
C4_AuthGate ==
    /\ [](last.op = "createPost" =>
            LET token == HeaderToken(last.in.hdr)
            IN IF JwtVerifies(token, JWT_SECRET)
               THEN /\ last.next = 1
                    /\ last.user.id = token[1].tok.id
                    /\ last.mw.status = 0
                    /\ last.ran
                    /\ last.res.status # 401
               ELSE /\ last.next = 0
                    /\ ~last.ran
                    /\ last.res.status = 401
                    /\ last.res.error =
                         IF token = <<>> THEN "No token, authorization denied"
                         ELSE "Token is not valid")
    /\ [][(last'.op = "createPost" /\ last'.res.status = 401) => posts' = posts]_vars

\* a forged token is turned away from a store that holds a post
C4_Witness ==
    /\ last.op = "createPost"
    /\ last.res.error = "Token is not valid"
    /\ last.in.title # "" /\ last.in.content # ""
    /\ posts # {}

BadName(b) == Len(trim(b.name)) < 2
BadEmail(b) == ~isEmail(b.email)
BadPassword(b) == Len(b.password) < 6

\* C5: a register request with a name shorter than 2 characters after
\* trimming, an invalid email or a password shorter than 6 characters is
\* answered 400 with the message of every failing field, and creates no user.
C5_ValidationRejects ==
    /\ [](\A r \in Reqs :
            LET b == reg[r].body
            IN (reg[r].pc # "idle" /\ (BadName(b) \/ BadEmail(b) \/ BadPassword(b)))
               => (/\ reg[r].pc = "done"
                   /\ reg[r].res.status = 400
                   /\ reg[r].res.errors # <<>>
                   /\ BadName(b) <=>
                        "Name must be at least 2 characters" \in Range(reg[r].res.errors)
                   /\ BadEmail(b) <=> "Invalid email" \in Range(reg[r].res.errors)
                   /\ BadPassword(b) <=>
                        "Password must be at least 6 characters"
                           \in Range(reg[r].res.errors)))
    /\ [][\A r \in Reqs :
            LET b == reg'[r].body
            IN (reg'[r] # reg[r] /\ (BadName(b) \/ BadEmail(b) \/ BadPassword(b)))
               => users' = users]_vars

\* every field fails, after a user was stored
C5_Witness ==
    /\ users # {}
    /\ \E r \in Reqs :
          /\ reg[r].pc = "done"
          /\ Len(reg[r].res.errors) = 3
          /\ Len(reg[r].body.name) >= 2

\* the new user of a step, answered 201 with its id, name, email and a token
\* for its id
Created(r) ==
    /\ reg'[r].pc = "done"
    /\ reg'[r].res.status = 201
    /\ reg'[r].res.token.sig = JWT_SECRET
    /\ \E u \in users' :
          /\ u \notin users
          /\ users' = users \cup {u}
          /\ reg'[r].res.user = [id |-> u.id, name |-> u.name, email |-> u.email]
          /\ reg'[r].res.token.id = u.id
          /\ u.id # NoId

\* the register request of r moves on; its validation has passed
Moves(r) == InFlight(r) /\ reg'[r] # reg[r]

Proceeds(r) ==
    IF reg[r].pc = "findOne" THEN reg'[r].pc = "save" /\ users' = users
    ELSE Created(r)

\* C6 as stated: a valid register request whose email, as sent, no stored
\* user has and no other request in flight carries, is answered 201 with a
\* token and the new user, and exactly that user is added.
C6_Original ==
    [][\A r \in Reqs :
         (/\ Moves(r)
          /\ \A u \in users : u.email # reg[r].body.email
          /\ \A q \in Reqs \ {r} :
                InFlight(q) => reg[q].body.email # reg[r].body.email)
         => Proceeds(r)]_vars

\* C6 amended: the same, for the email as normalizeEmail rewrites it.
C6_RegisterCreates ==
    [][\A r \in Reqs :
         (/\ Moves(r)
          /\ \A u \in users : u.email # reg[r].req.email
          /\ \A q \in Reqs \ {r} :
                InFlight(q) => reg[q].req.email # reg[r].req.email)
         => Proceeds(r)]_vars

C6_Witness ==
    \E r \in Reqs :
       /\ reg[r].pc = "done"
       /\ reg[r].res.status = 201
       /\ reg[r].body.email # reg[r].req.email
       /\ \E u \in users : u.id = reg[r].res.token.id /\ u.email = reg[r].res.user.email

\* C7: once a register request with email E and password P is answered 201,
\* a login with the same E and P is answered 200 with a token for the id of
\* the registered user.
C7_Original ==
    [][\A r \in Reqs :
         (/\ last' # last
          /\ last'.op = "login"
          /\ reg[r].pc = "done"
          /\ reg[r].res.status = 201
          /\ last'.in.email = reg[r].body.email
          /\ last'.in.password = reg[r].body.password)
         => (/\ last'.res.status = 200
             /\ last'.res.token.id = reg[r].res.user.id)]_vars

ErrorOps == {"errorHandler", "testError", "malformedJson"}

\* C8 as stated: success is false; CastError gives 404, code 11000 gives
\* 400, ValidationError gives 400 with the field messages, anything else 500.
C8_Original ==
    last.op \in ErrorOps =>
       LET e == last.in
           r == last.res
       IN /\ r.success = "false"
          /\ e.name = "CastError" =>
                (r.status = 404 /\ r.error = "Resource not found")
          /\ e.code = 11000 =>
                (r.status = 400 /\ r.error = "Duplicate field value entered")
          /\ e.name = "ValidationError" =>
                (r.status = 400 /\ r.errorArr = e.errors)
          /\ (e.name \notin {"CastError", "ValidationError"} /\ e.code # 11000)
                => r.status = 500

\* C8 amended: the same, but an error that matches none of the three rules
\* is answered with the statusCode it carries, and with 500 only when it
\* carries none.
C8_ErrorMapping ==
    last.op \in ErrorOps =>
       LET e == last.in
           r == last.res
       IN /\ r.success = "false"
          /\ e.name = "CastError" =>
                (r.status = 404 /\ r.error = "Resource not found")
          /\ e.code = 11000 =>
                (r.status = 400 /\ r.error = "Duplicate field value entered")
          /\ e.name = "ValidationError" =>
                (r.status = 400 /\ r.errorArr = e.errors)
          /\ (e.name \notin {"CastError", "ValidationError"} /\ e.code # 11000)
                => r.status = (IF e.statusCode # 0 THEN e.statusCode ELSE 500)

\* a body that does not parse is answered with the 400 of its error
C8_Witness ==
    /\ last.op = "malformedJson"
    /\ last.in.name = "SyntaxError"
    /\ last.in.statusCode = 400
    /\ last.res.status = 400
    /\ last.res.success = "false"

\* C9: a GET /api/posts/:id with a malformed id is answered 404 "Resource
\* not found".
C9_Original ==
    (last.op = "getPost" /\ ~IsObjectId(last.in.id))
    => (last.res.status = 404 /\ last.res.error = "Resource not found")

\* C10: a socket whose handshake has no token, or one that does not verify,
\* is refused with "Authentication error" and no handler ever runs for it;
\* a socket that reaches the connection handler has the id of its verified
\* token as socket.userId.
C10_SocketGate ==
    /\ [](\A s \in Socks :
            /\ (socks[s].st \in {"connected", "closed"} \/ socks[s].listeners # {}
                   \/ out.by = s)
                  => JwtVerifies(socks[s].hs, JWT_SECRET)
            /\ (socks[s].st # "none" /\ ~JwtVerifies(socks[s].hs, JWT_SECRET))
                  => (socks[s].st = "refused"
                        /\ socks[s].err = "Authentication error"))
    /\ [][\A s \in Socks :
            (socks[s].st = "none" /\ socks'[s].st = "connected")
               => socks'[s].userId = socks'[s].hs[1].tok.id]_vars

\* one socket was refused for a forged token while another one's handler ran
C10_Witness ==
    \E s1, s2 \in Socks :
       /\ socks[s1].st = "refused"
       /\ socks[s1].hs # <<>>
       /\ socks[s2].st = "connected"
       /\ out.by = s2
\* the members of room: the connected sockets that joined it
Members(room) ==
    {t \in Socks : socks[t].st = "connected" /\ room \in socks[t].rooms}

Received(s, m) ==
    \E e \in inbox[s] : e.ev = "message" /\ e.data.message = m

\* C12 as stated: a connected client that emitted sendMessage with text m and
\* a room eventually receives a 'message' event with text m, whether or not
\* it joined the room.
C12_Original ==
    \A s \in Socks, m \in Messages :
       (out.on = "sendMessage" /\ out.by = s /\ out.in.message = m)
          ~> Received(s, m)

\* C13 as stated: a client whose connection was accepted eventually
\* receives a 'message' event, without emitting anything itself.
C13_Original ==
    \A s \in Socks :
       (socks[s].st = "connected") ~> (\E e \in inbox[s] : e.ev = "message")

\* C14: the handler of a typing (stopTyping) event (room, user) emits a
\* userTyping event with that user and isTyping true (false) to every member
\* of the room other than the emitting socket, and to no one else.
C14_TypingRelay ==
    [][(out' # out /\ out'.on \in {"typing", "stopTyping"})
         => /\ out'.ev = "userTyping"
            /\ out'.data = [user |-> out'.in.user,
                            isTyping |-> (out'.on = "typing")]
            /\ out'.to = Members(out'.in.room) \ {out'.by}
            /\ socks' = socks]_vars

\* a member of a room with another member told the room it stopped typing
C14_Witness ==
    /\ out.on = "stopTyping"
    /\ out.in.room \in socks[out.by].rooms
    /\ out.to # {}

\* the user whose token socket s presented when it connected
AuthenticatedAs(s) == socks[s].hs[1].tok.id

\* C15 as stated: a socket is a member of the room named U only if it is a
\* socket of user U, and a notification sent to userId U is delivered only to
\* sockets authenticated as U.
C15_Original ==
    /\ \A s \in Socks :
          socks[s].st = "connected"
             => \A U \in socks[s].rooms : AuthenticatedAs(s) = U
    /\ out.on = "sendNotification"
          => \A s \in out.to : AuthenticatedAs(s) = out.in.userId

\* C16 as stated: the handler of a newPost event with valid post data saves
\* the post and emits postCreated to all connected clients.
C16_Original ==
    out.on = "newPost"
       => /\ out.ev = "postCreated"
          /\ out.to = Connected
          /\ \E post \in posts :
                /\ post.title = out.in.title
                /\ post.content = out.in.content
                /\ post.author = out.in.author

\* C17: the author of every stored post is the id of a stored user.
C17_AuthorStored ==
    \A post \in posts : \E u \in users : u.id = post.author

\* the second of two stored users created a post
C17_Witness ==
    /\ Cardinality(users) = 2
    /\ \E post \in posts, u \in users :
          u.id = post.author /\ u.id = Oid(2)

AdminOps == {"adminGetUsers", "adminDeleteUser", "adminUpdateRole"}

\* C18 as stated: a request to an admin route with a valid token of a user
\* whose stored role is 'admin' is answered 200, and GET /api/admin/users
\* answers with the users without their passwords.
C18_Original ==
    (last.op \in AdminOps /\ last.role = "admin")
       => /\ last.res.status = 200
          /\ last.op = "adminGetUsers" => last.list # {}

\* the passwords a client supplied, and a digest of one of them
Supplied == Passwords \cup LoginPasswords
HashedOnce(digest) == \E p \in Supplied : digest = Hash(p) /\ p # digest

PasswordOf(us, id) == {u.password : u \in {v \in us : v.id = id}}

\* C19: every stored password is the hash, taken once, of a supplied
\* password and never the plaintext; register stores the hash of its
\* password and a successful reset the hash of the new one; no other request,
\* forgotpassword included, changes a stored password; and login with the
\* password whose hash is stored succeeds.
C19_HashedOnce ==
    /\ [](\A u \in users : HashedOnce(u.password) /\ u.password \notin Supplied)
    /\ [][\A u \in users' \ users :
            \/ /\ u.id \notin {v.id : v \in users}
               /\ \E r \in Reqs : /\ reg[r].pc = "save"
                                  /\ u.password = Hash(reg[r].req.password)
            \/ /\ last'.op = "forgotpassword"
               /\ PasswordOf(users, u.id) = {u.password}
            \/ /\ last'.op = "resetpassword" /\ last'.res.status = 200
               /\ u.password = Hash(last'.in.password)]_vars
    /\ [][(last' # last /\ last'.op = "login"
           /\ \E u \in users : /\ u.email = last'.in.email
                               /\ u.password = Hash(last'.in.password))
            => last'.res.status = 200]_vars

\* login succeeded with a password set by a reset, after a later
\* forgotpassword request stored a new reset token
C19_Witness ==
    /\ last.op = "login" /\ last.res.status = 200
    /\ last.in.password # GoodPassword
    /\ \E u \in users : /\ u.email = last.in.email
                        /\ u.resetPasswordToken # NoResetToken

\* C20: since the last open attemptReconnect scheduled at most
\* maxReconnectAttempts reconnects; each scheduled attempt doubles
\* reconnectDelay, which stays between 1000 and 30000 ms (the doubling stops
\* at 30000); and an open sets reconnectAttempts to 0 and reconnectDelay to
\* 1000.
C20_Backoff ==
    /\ [](/\ service.scheduled <= maxReconnectAttempts
          /\ service.reconnectDelay >= InitialReconnectDelay
          /\ service.reconnectDelay <= MaxReconnectDelay)
    /\ [][service'.scheduled = service.scheduled + 1
            => /\ service'.timers = service.timers + 1
               /\ service'.reconnectDelay =
                    IF 2 * service.reconnectDelay <= MaxReconnectDelay
                    THEN 2 * service.reconnectDelay ELSE MaxReconnectDelay]_vars
    /\ [][service'.timers > service.timers
            => service'.scheduled = service.scheduled + 1]_vars
    /\ [][(service'.connectionStatus /\ ~service.connectionStatus)
            => /\ service'.reconnectAttempts = 0
               /\ service'.reconnectDelay = InitialReconnectDelay
               /\ service'.scheduled = 0]_vars

\* the fifth reconnect since an open was scheduled and the delay reached its cap
C20_Witness ==
    /\ service.scheduled = maxReconnectAttempts
    /\ service.reconnectDelay = MaxReconnectDelay
    /\ service.timers > 0

\* C21 as stated: the close notification of a socket the service itself
\* completed (in disconnect(), also the one connect() performs) schedules no
\* reconnect; while this.socket$ is undefined no socket is created except by
\* the application calling connect(), and connectionStatus stays false.
C21_Original ==
    /\ [][(\/ service'.closing < service.closing
           \/ (service'.zombies < service.zombies
               /\ service'.closing = service.closing))
            => service'.timers = service.timers]_vars
    /\ [][(~service.socket /\ service'.socket)
            => service'.timers = service.timers]_vars
    /\ [][(~service.socket /\ ~service'.socket)
            => ~service'.connectionStatus]_vars

\* C22: a call of sendMessage hands the message to the socket exactly when
\* socket$ exists and connectionStatus is true; otherwise it only warns
\* 'WebSocket not connected, cannot send message': nothing is handed to the
\* socket and the rest of the service is as before.
C22_SendGate ==
    [][(service'.next # service.next \/ service'.warn # service.warn)
         => IF service.socket /\ service.connectionStatus
            THEN /\ service'.next \in MessageTypes
                 /\ service' = [service EXCEPT !.next = service'.next]
            ELSE service' = [service EXCEPT !.warn = NotConnectedWarning]]_vars

\* a message was handed to the socket, and a later one was dropped with the
\* warning while socket$ existed but was not connected
C22_Witness ==
    /\ service.next \in MessageTypes
    /\ service.warn = NotConnectedWarning
    /\ service.socket /\ ~service.connectionStatus

====
